---- MODULE Spec2Model ----
(***************************************************************************)
(* DivineBus (src/core/divine_bus.py): the encrypted, length-prefixed RPC  *)
(* server.  The model follows the asyncio program: the server object's     *)
(* fields, one task per start() call, one task per accepted connection,   *)
(* and one action per stretch of code between two awaits.                  *)
(***************************************************************************)
EXTENDS Integers, Sequences, FiniteSets, TLC

(* ------------------------------ bounds -------------------------------- *)
\* connections the listener accepts in a run
MaxConns == 2
\* length prefixes a peer sends on one connection
MaxFrames == 2
\* start() calls issued in a run
MaxStarts == 2
\* start() calls issued in a run that follows the server's life only
LifeStarts == 3
\* length prefixes a peer sends on one of several concurrent connections
PairFrames == 2
\* distinct values os.urandom(12) may return
MaxNonce == 1
\* byte length of the (whitespace padded) JSON text of a request sent by a peer
ReqSize == 64
\* length prefixes the peer of a run that follows the server's life sends
LifeFrames == 2

(* -------------------------- program constants ------------------------- *)
max_message_size == 1048576
NonceLen == 12
TagLen == 16
MinEnvelopeLen == 28
\* len(json.dumps({"jsonrpc": "2.0", "error": {"code": "", "message": ""}}))
JsonErrorOverhead == 56
\* len(json.dumps({"jsonrpc": "2.0", "result": X})) - len(json.dumps(X))
JsonResultOverhead == 30

Conns == 1..MaxConns
\* the names register_handler is called with: one __init__ registered, one new
RegNames == {"ping", "nope"}
\* the callables register_handler is called with
RegHandlers == {"h1", "h2"}
\* the callable set_default_handler is called with
DefaultHandlers == {"fallback"}
\* every start() call of a run; the runs with connections issue the first MaxStarts
Starters == 1..LifeStarts
Nonces == 1..MaxNonce

(* ----------------------------- Python values -------------------------- *)
NoneVal == [t |-> "None"]
Absent == "<absent>"

\* the outcome of a call: a returned value or a raised exception
Ok(v) == [ok |-> TRUE, val |-> v]
Raise(e, m) == [ok |-> FALSE, exc |-> e, msg |-> m]

\* params objects: the keys the built-in handlers look at
NoParams == [module |-> Absent, message |-> Absent, level |-> Absent]
ParamsModule(m) == [module |-> m, message |-> Absent, level |-> Absent]

\* JSON documents a peer may put into a frame
ReqDoc(m, p) == [json |-> TRUE, method |-> m, params |-> p]
NotJson == [json |-> FALSE, method |-> Absent, params |-> NoParams]
ReqPing == ReqDoc("ping", NoParams)
ReqRestartVoice == ReqDoc("restart_module", ParamsModule("voice"))
ReqRestartNoModule == ReqDoc("restart_module", NoParams)
ReqUnknown == ReqDoc("nope", NoParams)
ReqNoMethod == ReqDoc(Absent, NoParams)
ReqEmptyMethod == ReqDoc("", NoParams)
RequestDocs == {ReqPing, ReqRestartVoice, ReqRestartNoModule, ReqUnknown,
                ReqNoMethod, ReqEmptyMethod}

\* a bytes object: its content and its length
Bytes(d, n) == [type |-> "bytes", doc |-> d, size |-> n]

(* ------------------------------- keys --------------------------------- *)
\* self.aes_key, derived once in __init__ from the shared secret
aes_key == "aes_key"
OtherKey == "other_key"

(* --------------------------- struct '>I' ------------------------------ *)
\* struct.pack('>I', n): four bytes, most significant first
PackU32(n) == << n \div 16777216, (n \div 65536) % 256, (n \div 256) % 256, n % 256 >>
\* struct.unpack('>I', b)[0]
UnpackU32(b) == ((b[1] * 256 + b[2]) * 256 + b[3]) * 256 + b[4]

(* ------------------------------ AES-GCM -------------------------------- *)
\* nonce || ciphertext || tag as a symbolic term: the envelope records the key
\* and nonce it was sealed with, the plaintext, and whether a byte of the
\* ciphertext or of the tag was changed afterwards ("raw": bytes that never
\* came out of AESGCM.encrypt)
Envelope(k, n, data, f) ==
  [len |-> NonceLen + data.size + TagLen, nonce |-> n, key |-> k, pt |-> data, flip |-> f]
RawBytes(n) == [len |-> n, nonce |-> 0, key |-> "none", pt |-> Bytes(NotJson, 0), flip |-> "raw"]
NoBytes == [len |-> -1, nonce |-> 0, key |-> "none", pt |-> Bytes(NotJson, 0), flip |-> "unset"]

\* DivineBus._encrypt, with the nonce os.urandom(12) returned
Encrypt(key, nonce, data) == Envelope(key, nonce, data, "none")

\* the length test with <= in place of <: an envelope of an empty plaintext
\* is refused
DecryptInclusive(key, data) ==
  IF data.len <= MinEnvelopeLen THEN Raise("ValueError", "Invalid encrypted data")
  ELSE IF data.key = key /\ data.flip = "none" THEN Ok(data.pt)
  ELSE Raise("ValueError", "Invalid authentication tag")

\* the tag is not verified: whatever the ciphertext decrypts to is returned
DecryptUnverified(key, data) ==
  IF data.len < MinEnvelopeLen THEN Raise("ValueError", "Invalid encrypted data")
  ELSE IF data.key = key THEN Ok(data.pt)
  ELSE Raise("ValueError", "Invalid authentication tag")

\* DivineBus._decrypt
Decrypt(key, data) ==
  IF data.len < MinEnvelopeLen THEN Raise("ValueError", "Invalid encrypted data")
  ELSE IF data.key = key /\ data.flip = "none" THEN Ok(data.pt)
  ELSE Raise("ValueError", "Invalid authentication tag")

(* ------------------------------ handlers ------------------------------- *)
\* a handler's return value: a JSON-serializable object with the length of
\* its JSON text
Result(status, detail, n) == [t |-> "obj", status |-> status, detail |-> detail, size |-> n]

\* DivineBus._handle_ping
HandlePing(params) == Ok(Result("alive", "timestamp", 43))

\* DivineBus._handle_restart_module
HandleRestartModule(params) ==
  IF params.module \in {Absent, ""} THEN Raise("ValueError", "No module specified")
  ELSE Ok(Result("restarting", params.module, 38 + Len(params.module)))

\* DivineBus._handle_sync_heartbeat
HandleSyncHeartbeat(params) == Ok(Result("synced", "timestamp", 44))

\* DivineBus._handle_send_alert
HandleSendAlert(params) ==
  IF params.message \in {Absent, ""} THEN Raise("ValueError", "No message provided")
  ELSE Ok(Result("alert_sent", params.message, 56 + Len(params.message)))

\* DivineBus._handle_get_metrics: core/performance.py defines no module-level
\* collect_metrics, the import raises
HandleGetMetrics(params) ==
  Raise("ImportError", "cannot import name 'collect_metrics'")

\* await handler(params) for the handlers __init__ registers
CallHandler(h, params) ==
  CASE h = "_handle_ping" -> HandlePing(params)
    [] h = "_handle_restart_module" -> HandleRestartModule(params)
    [] h = "_handle_get_metrics" -> HandleGetMetrics(params)
    [] h = "_handle_sync_heartbeat" -> HandleSyncHeartbeat(params)
    [] h = "_handle_send_alert" -> HandleSendAlert(params)
    [] OTHER -> Ok(Result("custom", h, 16))

\* self._handlers after __init__
InitHandlers ==
  [m \in {"ping", "restart_module", "get_metrics", "sync_heartbeat", "send_alert"} |->
     CASE m = "ping" -> "_handle_ping"
       [] m = "restart_module" -> "_handle_restart_module"
       [] m = "get_metrics" -> "_handle_get_metrics"
       [] m = "sync_heartbeat" -> "_handle_sync_heartbeat"
       [] m = "send_alert" -> "_handle_send_alert"]

\* DivineBus._handle_rpc: message.get exists only on a dict
HandleRpc(message, table, dflt) ==
  IF message.type # "dict"
  THEN Raise("AttributeError", "'bytes' object has no attribute 'get'")
  ELSE LET d == message.doc IN
       IF d.method \in {Absent, ""} THEN Raise("ValueError", "No method specified")
       ELSE IF d.method \in DOMAIN table THEN CallHandler(table[d.method], d.params)
       ELSE IF dflt # Absent THEN Ok(Result("default", d.method, 16))
       ELSE Raise("ValueError", "Unknown method: " \o d.method)

(* ------------------------------ responses ------------------------------ *)
ErrorObj(code, message) == [t |-> "error", code |-> code, message |-> message]

\* result is stored even when an error is given: both keys are present
CreateResponseBoth(result, error) ==
  IF error # NoneVal
  THEN Ok([jsonrpc |-> "2.0", keys |-> {"jsonrpc", "error", "result"}, result |-> result, error |-> error])
  ELSE Ok([jsonrpc |-> "2.0", keys |-> {"jsonrpc", "result"}, result |-> result, error |-> NoneVal])

\* DivineBus._create_response
CreateResponse(result, error) ==
  IF result # NoneVal /\ error # NoneVal
  THEN Raise("ValueError", "Cannot specify both result and error")
  ELSE IF error # NoneVal
  THEN Ok([jsonrpc |-> "2.0", keys |-> {"jsonrpc", "error"}, result |-> NoneVal, error |-> error])
  ELSE Ok([jsonrpc |-> "2.0", keys |-> {"jsonrpc", "result"}, result |-> result, error |-> NoneVal])

\* json.dumps(data).encode('utf-8') of a response
JsonDumps(resp) ==
  IF "error" \in resp.keys
  THEN Bytes(resp, JsonErrorOverhead + Len(resp.error.code) + Len(resp.error.message))
  ELSE Bytes(resp, JsonResultOverhead + (IF resp.result = NoneVal THEN 4 ELSE resp.result.size))

(* ------------------------------- state --------------------------------- *)
VARIABLES
  running,          \* self.running
  server,           \* self.server: 0 is None, t the Server bound by start() call t
  handlers,         \* self._handlers
  default_handler,  \* self._default_handler
  max_size,         \* self.config["max_message_size"]
  connection_id,    \* self._connection_id
  spc,              \* spc[t]: where start() call t stands
  lsn,              \* lsn[t]: the listening socket of the Server start() call t bound
  pc,               \* pc[c]: where the task of connection c stands
  conn_id,          \* conn_id of connection c's task
  msg_len,          \* msg_len of connection c's task
  encrypted_msg,    \* encrypted_msg of connection c's task
  sock,             \* the writer (socket) of connection c
  nprefix,          \* length prefixes read from connection c so far
  nread,            \* payloads fully read from connection c so far
  written,          \* the frames handed to connection c's writer, in order
  exit,             \* how connection c's task left its loop
  stopped,          \* history: stop() closed the listener and start() was not called since
  at_stop,          \* history: what connection c was doing when stop() last took effect
  last_stop,        \* history: how the stop() calls made since the last start() call ended
  registered        \* history: the handler last passed to register_handler for a name

srv_vars == << running, server, handlers, default_handler, max_size, spc, lsn >>
hist_vars == << stopped, at_stop, last_stop, registered >>
conn_vars == << pc, conn_id, msg_len, encrypted_msg, sock, nprefix, nread, written, exit >>
vars == << running, server, handlers, default_handler, max_size, connection_id, spc, lsn,
           pc, conn_id, msg_len, encrypted_msg, sock, nprefix, nread, written, exit,
           stopped, at_stop, last_stop, registered >>

\* DivineBus.__init__ but for the configuration: no start() call made and no
\* connection accepted yet
InitBus ==
  /\ running = FALSE
  /\ server = 0
  /\ handlers = InitHandlers
  /\ default_handler = Absent
  /\ connection_id = 0
  /\ spc = [t \in Starters |-> "new"]
  /\ lsn = [t \in Starters |-> "none"]
  /\ pc = [c \in Conns |-> "none"]
  /\ conn_id = [c \in Conns |-> -1]
  /\ msg_len = [c \in Conns |-> -1]
  /\ encrypted_msg = [c \in Conns |-> NoBytes]
  /\ sock = [c \in Conns |-> "none"]
  /\ nprefix = [c \in Conns |-> 0]
  /\ nread = [c \in Conns |-> 0]
  /\ written = [c \in Conns |-> << >>]
  /\ exit = [c \in Conns |-> "none"]
  /\ stopped = FALSE
  /\ at_stop = [c \in Conns |-> "none"]
  /\ last_stop = "none"
  /\ registered = [m \in RegNames |-> "none"]

\* DivineBus.__init__ with the default configuration
Init ==
  /\ InitBus
  /\ max_size = max_message_size

\* a limit a configuration file may set: the largest request of the peers
\* modelled still fits
SmallLimit == MinEnvelopeLen + ReqSize
ConfigSizes == {max_message_size, SmallLimit}

\* DivineBus.__init__ with a configuration file that sets max_message_size
InitConfig ==
  /\ InitBus
  /\ max_size \in ConfigSizes

(* ------------------------- what a peer may send ------------------------ *)
\* a large length no frame may have: the largest prefix whose value TLC's
\* integers hold
HugeLen == UnpackU32(<< 127, 255, 255, 255 >>)

\* the payloads of exactly n bytes a peer may send
PeerPayloads(n) ==
  IF n < MinEnvelopeLen THEN { RawBytes(n) }
  ELSE IF n = MinEnvelopeLen
  THEN { Envelope(aes_key, 1, Bytes(NotJson, 0), "none"),
         Envelope(aes_key, 1, Bytes(NotJson, 0), "tag"),
         Envelope(OtherKey, 1, Bytes(NotJson, 0), "none") }
  ELSE IF n = MinEnvelopeLen + ReqSize
  THEN { Envelope(aes_key, 1, Bytes(d, ReqSize), "none") : d \in RequestDocs }
         \cup { Envelope(aes_key, 1, Bytes(ReqPing, ReqSize), "ct") }
  ELSE { Envelope(aes_key, 1, Bytes(ReqPing, n - MinEnvelopeLen), "none") }

\* one peer, every kind of frame: the lengths around both limits, every
\* request document, envelopes that fail to decrypt
RichPeer ==
  [ frames |-> MaxFrames,
    nonces |-> Nonces,
    lengths |-> {0, MinEnvelopeLen - 1, MinEnvelopeLen, MinEnvelopeLen + ReqSize,
                 max_size, max_size + 1, HugeLen},
    flips |-> {"raw", "none", "ct", "tag"},
    docs |-> RequestDocs \cup {NotJson} ]

\* several peers at once, each with a few frames that are answered differently
PairPeer ==
  [ frames |-> PairFrames,
    nonces |-> {1},
    lengths |-> {MinEnvelopeLen - 1, MinEnvelopeLen + ReqSize, max_size + 1},
    flips |-> {"raw", "none", "ct"},
    docs |-> {ReqPing} ]

\* a peer that sends well-formed requests and an oversized prefix, beside a
\* server that is started and stopped many times
LifePeer ==
  [ frames |-> LifeFrames,
    nonces |-> {1},
    lengths |-> {MinEnvelopeLen + ReqSize, max_size + 1},
    flips |-> {"none"},
    docs |-> {ReqPing} ]

\* the byte counts a read of n bytes may stop at when the peer stalls or
\* closes: nothing, one byte, enough for an envelope, all but one byte
PartialLens(n) == { k \in {0, 1, MinEnvelopeLen, n - 1} : k >= 0 /\ k < n }

\* a peer asking for a method __init__ registered and for one it did not,
\* or announcing a frame over the limit
RegistryPeer ==
  [ frames |-> PairFrames,
    nonces |-> {1},
    lengths |-> {MinEnvelopeLen + ReqSize, max_size + 1},
    flips |-> {"none"},
    docs |-> {ReqPing, ReqUnknown} ]

\* the length prefixes peer p sends
Prefixes(p) == { PackU32(n) : n \in p.lengths }
\* the payloads of exactly n bytes peer p sends
Payloads(p, n) == { e \in PeerPayloads(n) : e.flip \in p.flips /\ e.pt.doc \in p.docs }

(* --------------------------- the server ------------------------------- *)
\* start() without the running test: a call made while the server runs
\* goes on to bind
StartCallUnchecked(t) ==
  /\ spc[t] = "new"
  /\ \A u \in Starters : u < t => spc[u] # "new"
  /\ running' = TRUE
  /\ spc' = [spc EXCEPT ![t] = "binding"]
  /\ stopped' = FALSE
  /\ last_stop' = "none"
  /\ UNCHANGED << server, handlers, default_handler, max_size, connection_id, lsn >>
  /\ UNCHANGED conn_vars
  /\ UNCHANGED << at_stop, registered >>

\* DivineBus.start up to its first await: the running check and the flag
StartCall(t) ==
  /\ spc[t] = "new"
  /\ \A u \in Starters : u < t => spc[u] # "new"
  /\ IF running
     THEN /\ spc' = [spc EXCEPT ![t] = "returned"]
          /\ UNCHANGED running
     ELSE /\ running' = TRUE
          /\ spc' = [spc EXCEPT ![t] = "binding"]
  /\ stopped' = FALSE
  /\ last_stop' = "none"
  /\ UNCHANGED << server, handlers, default_handler, max_size, connection_id, lsn >>
  /\ UNCHANGED conn_vars
  /\ UNCHANGED << at_stop, registered >>

\* await asyncio.start_server(...) returns a listening Server
StartBindOk(t) ==
  /\ spc[t] = "binding"
  /\ \A u \in Starters : lsn[u] # "open"
  /\ server' = t
  /\ lsn' = [lsn EXCEPT ![t] = "open"]
  /\ spc' = [spc EXCEPT ![t] = "serving"]
  /\ UNCHANGED << running, handlers, default_handler, max_size, connection_id >>
  /\ UNCHANGED conn_vars
  /\ UNCHANGED hist_vars

\* the error is re-raised without the finally block: the flag stays set
StartBindFailKeepsFlag(t) ==
  /\ spc[t] = "binding"
  /\ spc' = [spc EXCEPT ![t] = "raised"]
  /\ UNCHANGED << running, server, handlers, default_handler, max_size, connection_id, lsn >>
  /\ UNCHANGED conn_vars
  /\ UNCHANGED hist_vars

\* await asyncio.start_server(...) raises (address in use, permission):
\* except logs and re-raises, finally clears the flag
StartBindFail(t) ==
  /\ spc[t] = "binding"
  /\ running' = FALSE
  /\ spc' = [spc EXCEPT ![t] = "raised"]
  /\ UNCHANGED << server, handlers, default_handler, max_size, connection_id, lsn >>
  /\ UNCHANGED conn_vars
  /\ UNCHANGED hist_vars

\* the cancellation does not close the Server (serve_forever awaited outside
\* async with, its own handler left out)
CancelStartLeavesOpen(t) ==
  /\ spc[t] = "serving"
  /\ lsn[t] = "open"
  /\ spc' = [spc EXCEPT ![t] = "cancelling"]
  /\ UNCHANGED << running, server, handlers, default_handler, max_size, connection_id, lsn >>
  /\ UNCHANGED conn_vars
  /\ UNCHANGED hist_vars

\* the task running start() call t is cancelled while it awaits
\* serve_forever(): the CancelledError handler of serve_forever and the exit
\* of async with close the Server, up to await wait_closed()
CancelStart(t) ==
  /\ spc[t] = "serving"
  /\ lsn[t] = "open"
  /\ lsn' = [lsn EXCEPT ![t] = "closed"]
  /\ spc' = [spc EXCEPT ![t] = "cancelling"]
  /\ UNCHANGED << running, server, handlers, default_handler, max_size, connection_id >>
  /\ UNCHANGED conn_vars
  /\ UNCHANGED hist_vars

\* start_serving() in place of serve_forever(), outside async with: start()
\* returns as soon as the listener accepts, through finally
StartUnwindAtOnce(t) ==
  /\ spc[t] \in {"serving", "cancelling"}
  /\ running' = FALSE
  /\ spc' = [spc EXCEPT ![t] = IF lsn[t] = "open" THEN "returned" ELSE "cancelled"]
  /\ UNCHANGED << server, handlers, default_handler, max_size, connection_id, lsn >>
  /\ UNCHANGED conn_vars
  /\ UNCHANGED hist_vars

\* serve_forever() ends because the Server was closed or the task was
\* cancelled: start() unwinds through finally
StartUnwind(t) ==
  /\ \/ spc[t] = "serving" /\ lsn[t] = "closed"
     \/ spc[t] = "cancelling"
  /\ running' = FALSE
  /\ spc' = [spc EXCEPT ![t] = "cancelled"]
  /\ UNCHANGED << server, handlers, default_handler, max_size, connection_id, lsn >>
  /\ UNCHANGED conn_vars
  /\ UNCHANGED hist_vars

\* the server is Running: the flag is set and the listener self.server
\* holds is open
Running == running /\ server # 0 /\ lsn[server] = "open"

\* what an accepted connection is doing: between requests, or with a
\* request in hand (reading its payload, dispatching it, writing its response)
Activity(c) ==
  IF pc[c] \in {"readpayload", "drain"} THEN "busy"
  ELSE IF pc[c] \in {"spawned", "readlen"} THEN "idle"
  ELSE "none"

\* stop() also cancels the tasks of the accepted connections, which go to
\* their finally blocks
StopCancelling ==
  /\ IF ~running \/ server = 0
     THEN /\ last_stop' = "noop"
          /\ UNCHANGED << running, lsn, stopped, at_stop, pc, exit >>
     ELSE /\ running' = FALSE
          /\ last_stop' = "closed"
          /\ lsn' = [lsn EXCEPT ![server] = "closed"]
          /\ stopped' = (stopped \/ Running)
          /\ at_stop' = [c \in Conns |->
                           IF Activity(c) # "none" THEN Activity(c) ELSE at_stop[c]]
          /\ pc' = [c \in Conns |-> IF Activity(c) # "none" THEN "finally" ELSE pc[c]]
          /\ exit' = [c \in Conns |-> IF Activity(c) # "none" THEN "shutdown" ELSE exit[c]]
  /\ UNCHANGED << server, handlers, default_handler, max_size, connection_id, spc >>
  /\ UNCHANGED << conn_id, msg_len, encrypted_msg, sock, nprefix, nread, written >>
  /\ UNCHANGED registered

\* stop() without its guard: it closes whatever self.server holds, and fails
\* on None
StopUnguarded ==
  /\ IF server = 0
     THEN /\ last_stop' = "raised"
          /\ running' = FALSE
          /\ UNCHANGED << lsn, stopped, at_stop >>
     ELSE /\ running' = FALSE
          /\ last_stop' = "closed"
          /\ lsn' = [lsn EXCEPT ![server] = "closed"]
          /\ stopped' = (stopped \/ Running)
          /\ at_stop' = [c \in Conns |->
                           IF Activity(c) # "none" THEN Activity(c) ELSE at_stop[c]]
  /\ UNCHANGED << server, handlers, default_handler, max_size, connection_id, spc >>
  /\ UNCHANGED conn_vars
  /\ UNCHANGED registered

\* DivineBus.stop: Server.close() closes the listening socket and nothing
\* else; the await of wait_closed() changes no state
Stop ==
  /\ IF ~running \/ server = 0
     THEN /\ last_stop' = "noop"
          /\ UNCHANGED << running, lsn, stopped, at_stop >>
     ELSE /\ running' = FALSE
          /\ last_stop' = "closed"
          /\ lsn' = [lsn EXCEPT ![server] = "closed"]
          /\ stopped' = (stopped \/ Running)
          /\ at_stop' = [c \in Conns |->
                           IF Activity(c) # "none" THEN Activity(c) ELSE at_stop[c]]
  /\ UNCHANGED << server, handlers, default_handler, max_size, connection_id, spc >>
  /\ UNCHANGED conn_vars
  /\ UNCHANGED registered

\* DivineBus.register_handler
RegisterHandler(method, handler) ==
  /\ handlers' = [m \in DOMAIN handlers \cup {method} |->
                    IF m = method THEN handler ELSE handlers[m]]
  /\ registered' = [registered EXCEPT ![method] = handler]
  /\ UNCHANGED << running, server, default_handler, max_size, connection_id, spc, lsn >>
  /\ UNCHANGED conn_vars
  /\ UNCHANGED << stopped, at_stop, last_stop >>

\* DivineBus.set_default_handler
SetDefaultHandler(handler) ==
  /\ default_handler' = handler
  /\ UNCHANGED << running, server, handlers, max_size, connection_id, spc, lsn >>
  /\ UNCHANGED conn_vars
  /\ UNCHANGED hist_vars

(* ------------------------- a connection's task ------------------------- *)
\* the while self.running test at the top of the loop
LoopTop(c) ==
  IF running
  THEN /\ pc' = [pc EXCEPT ![c] = "readlen"]
       /\ UNCHANGED exit
  ELSE /\ pc' = [pc EXCEPT ![c] = "finally"]
       /\ exit' = [exit EXCEPT ![c] = "shutdown"]

\* an exception reaches except Exception of _handle_connection
ConnError(c) ==
  /\ pc' = [pc EXCEPT ![c] = "finally"]
  /\ exit' = [exit EXCEPT ![c] = "error"]

\* the frame goes to the writer of another connection
SendEncryptedCrossed(c, data, nonce) ==
  LET encrypted == Encrypt(aes_key, nonce, JsonDumps(data)) IN
  written' = [written EXCEPT ![(c % MaxConns) + 1] =
                Append(@, << PackU32(encrypted.len), encrypted >>)]

\* the frame is written a second time before the flush
SendEncryptedTwice(c, data, nonce) ==
  LET encrypted == Encrypt(aes_key, nonce, JsonDumps(data)) IN
  written' = [written EXCEPT ![c] =
                Append(Append(@, << PackU32(encrypted.len), encrypted >>),
                       << PackU32(encrypted.len), encrypted >>)]

\* the prefix carries the length of the JSON text, not of the envelope
SendEncryptedPlainLen(c, data, nonce) ==
  LET encrypted == Encrypt(aes_key, nonce, JsonDumps(data)) IN
  written' = [written EXCEPT ![c] = Append(@, << PackU32(JsonDumps(data).size), encrypted >>)]

\* DivineBus._send_encrypted up to await writer.drain(): the frame is the
\* 4-byte length of the envelope, then the envelope
SendEncrypted(c, data, nonce) ==
  LET encrypted == Encrypt(aes_key, nonce, JsonDumps(data)) IN
  written' = [written EXCEPT ![c] = Append(@, << PackU32(encrypted.len), encrypted >>)]

\* the try block of the loop body: decrypt, dispatch, build the response
ProcessMessage(data, table, dflt) ==
  LET d == Decrypt(aes_key, data) IN
  IF ~d.ok
  THEN CreateResponse(NoneVal, ErrorObj("internal_error", d.msg)).val
  ELSE LET r == HandleRpc(d.val, table, dflt) IN
       IF ~r.ok
       THEN CreateResponse(NoneVal, ErrorObj("internal_error", r.msg)).val
       ELSE CreateResponse(r.val, NoneVal).val

\* the listener accepts a connection and spawns _handle_connection
Accept(c) ==
  /\ pc[c] = "none"
  /\ \A b \in Conns : b < c => pc[b] # "none"
  /\ \E t \in Starters : lsn[t] = "open"
  /\ pc' = [pc EXCEPT ![c] = "spawned"]
  /\ sock' = [sock EXCEPT ![c] = "open"]
  /\ UNCHANGED << conn_id, msg_len, encrypted_msg, nprefix, nread, written, exit >>
  /\ UNCHANGED << connection_id >>
  /\ UNCHANGED srv_vars
  /\ UNCHANGED hist_vars

\* the counter is read but not advanced
ConnStartSameId(c) ==
  /\ pc[c] = "spawned"
  /\ conn_id' = [conn_id EXCEPT ![c] = connection_id]
  /\ UNCHANGED connection_id
  /\ LoopTop(c)
  /\ UNCHANGED << msg_len, encrypted_msg, sock, nprefix, nread, written >>
  /\ UNCHANGED srv_vars
  /\ UNCHANGED hist_vars

\* _handle_connection from its first line to the first readexactly
ConnStart(c) ==
  /\ pc[c] = "spawned"
  /\ conn_id' = [conn_id EXCEPT ![c] = connection_id]
  /\ connection_id' = connection_id + 1
  /\ LoopTop(c)
  /\ UNCHANGED << msg_len, encrypted_msg, sock, nprefix, nread, written >>
  /\ UNCHANGED srv_vars
  /\ UNCHANGED hist_vars

\* the size check with >= in place of >
ReadLenInclusive(c, p) ==
  /\ pc[c] = "readlen"
  /\ nprefix[c] < p.frames
  /\ \E b \in Prefixes(p), nonce \in p.nonces :
       LET n == UnpackU32(b) IN
       /\ msg_len' = [msg_len EXCEPT ![c] = n]
       /\ nprefix' = [nprefix EXCEPT ![c] = @ + 1]
       /\ IF n >= max_size
          THEN /\ SendEncrypted(c, CreateResponse(NoneVal,
                     ErrorObj("message_too_large", "Message exceeds maximum size")).val, nonce)
               /\ pc' = [pc EXCEPT ![c] = "notice_drain"]
               /\ exit' = [exit EXCEPT ![c] = "too_large"]
          ELSE /\ pc' = [pc EXCEPT ![c] = "readpayload"]
               /\ UNCHANGED << written, exit >>
  /\ UNCHANGED << conn_id, encrypted_msg, sock, nread, connection_id >>
  /\ UNCHANGED srv_vars
  /\ UNCHANGED hist_vars

\* the notice is sent but the loop goes on to the payload (no break)
ReadLenNoBreak(c, p) ==
  /\ pc[c] = "readlen"
  /\ nprefix[c] < p.frames
  /\ \E b \in Prefixes(p), nonce \in p.nonces :
       LET n == UnpackU32(b) IN
       /\ msg_len' = [msg_len EXCEPT ![c] = n]
       /\ nprefix' = [nprefix EXCEPT ![c] = @ + 1]
       /\ IF n > max_size
          THEN SendEncrypted(c, CreateResponse(NoneVal,
                 ErrorObj("message_too_large", "Message exceeds maximum size")).val, nonce)
          ELSE UNCHANGED written
       /\ pc' = [pc EXCEPT ![c] = "readpayload"]
       /\ UNCHANGED exit
  /\ UNCHANGED << conn_id, encrypted_msg, sock, nread, connection_id >>
  /\ UNCHANGED srv_vars
  /\ UNCHANGED hist_vars

\* readexactly(4) returns: unpack, check the size, send the notice or go on
\* to the payload
ReadLen(c, p) ==
  /\ pc[c] = "readlen"
  /\ nprefix[c] < p.frames
  /\ \E b \in Prefixes(p), nonce \in p.nonces :
       LET n == UnpackU32(b) IN
       /\ msg_len' = [msg_len EXCEPT ![c] = n]
       /\ nprefix' = [nprefix EXCEPT ![c] = @ + 1]
       /\ IF n > max_size
          THEN /\ SendEncrypted(c, CreateResponse(NoneVal,
                     ErrorObj("message_too_large", "Message exceeds maximum size")).val, nonce)
               /\ pc' = [pc EXCEPT ![c] = "notice_drain"]
               /\ exit' = [exit EXCEPT ![c] = "too_large"]
          ELSE /\ pc' = [pc EXCEPT ![c] = "readpayload"]
               /\ UNCHANGED << written, exit >>
  /\ UNCHANGED << conn_id, encrypted_msg, sock, nread, connection_id >>
  /\ UNCHANGED srv_vars
  /\ UNCHANGED hist_vars

\* the 4 bytes of struct '>I'
PrefixLen == 4

\* the timeout or EOF is reported to the peer with an error envelope before
\* the loop is left
ReadLenIdleNotice(c) ==
  /\ PartialLens(PrefixLen) # {}
  /\ pc[c] = "readlen"
  /\ SendEncrypted(c, CreateResponse(NoneVal, ErrorObj("timeout", "Read timed out")).val, 1)
  /\ pc' = [pc EXCEPT ![c] = "finally"]
  /\ exit' = [exit EXCEPT ![c] = "idle"]
  /\ UNCHANGED << conn_id, msg_len, encrypted_msg, sock, nprefix, nread, connection_id >>
  /\ UNCHANGED srv_vars
  /\ UNCHANGED hist_vars

\* the timeout is swallowed and the same read goes on waiting
ReadLenIdleWaits(c) ==
  /\ pc[c] = "readlen"
  /\ UNCHANGED vars

\* readexactly(4) times out or hits EOF with fewer than 4 bytes in: break
ReadLenIdle(c) ==
  /\ PartialLens(PrefixLen) # {}
  /\ pc[c] = "readlen"
  /\ pc' = [pc EXCEPT ![c] = "finally"]
  /\ exit' = [exit EXCEPT ![c] = "idle"]
  /\ UNCHANGED << conn_id, msg_len, encrypted_msg, sock, nprefix, nread, written, connection_id >>
  /\ UNCHANGED srv_vars
  /\ UNCHANGED hist_vars

\* readexactly raises another error (connection reset)
ReadError(c) ==
  /\ pc[c] \in {"readlen", "readpayload"}
  /\ ConnError(c)
  /\ UNCHANGED << conn_id, msg_len, encrypted_msg, sock, nprefix, nread, written, connection_id >>
  /\ UNCHANGED srv_vars
  /\ UNCHANGED hist_vars

\* a failure of the try block is not caught there: it reaches the outer
\* except and ends the connection unanswered
ReadPayloadEscaping(c, p) ==
  /\ pc[c] = "readpayload"
  /\ \E e \in Payloads(p, msg_len[c]), nonce \in p.nonces :
       /\ encrypted_msg' = [encrypted_msg EXCEPT ![c] = e]
       /\ IF Decrypt(aes_key, e).ok /\ HandleRpc(Decrypt(aes_key, e).val, handlers, default_handler).ok
          THEN /\ SendEncrypted(c, ProcessMessage(e, handlers, default_handler), nonce)
               /\ pc' = [pc EXCEPT ![c] = "drain"]
               /\ UNCHANGED exit
          ELSE /\ ConnError(c)
               /\ UNCHANGED written
  /\ nread' = [nread EXCEPT ![c] = @ + 1]
  /\ UNCHANGED << conn_id, msg_len, sock, nprefix, connection_id >>
  /\ UNCHANGED srv_vars
  /\ UNCHANGED hist_vars

\* the response is not written before the loop turns to the next frame
ReadPayloadDeferred(c, p) ==
  /\ pc[c] = "readpayload"
  /\ \E e \in Payloads(p, msg_len[c]) :
       encrypted_msg' = [encrypted_msg EXCEPT ![c] = e]
  /\ nread' = [nread EXCEPT ![c] = @ + 1]
  /\ pc' = [pc EXCEPT ![c] = "readlen"]
  /\ UNCHANGED << conn_id, msg_len, sock, nprefix, written, exit, connection_id >>
  /\ UNCHANGED srv_vars
  /\ UNCHANGED hist_vars

\* a flush blocks the whole loop: no payload is taken in while another
\* connection waits in writer.drain()
ReadPayloadExclusive(c, p) ==
  /\ pc[c] = "readpayload"
  /\ \A b \in Conns \ {c} : pc[b] \notin {"drain", "notice_drain"}
  /\ \E e \in Payloads(p, msg_len[c]), nonce \in p.nonces :
       /\ encrypted_msg' = [encrypted_msg EXCEPT ![c] = e]
       /\ SendEncrypted(c, ProcessMessage(e, handlers, default_handler), nonce)
  /\ nread' = [nread EXCEPT ![c] = @ + 1]
  /\ pc' = [pc EXCEPT ![c] = "drain"]
  /\ UNCHANGED << conn_id, msg_len, sock, nprefix, exit, connection_id >>
  /\ UNCHANGED srv_vars
  /\ UNCHANGED hist_vars

\* readexactly(msg_len) returns msg_len bytes: the try block runs and the
\* response goes to the writer, up to await writer.drain()
ReadPayload(c, p) ==
  /\ pc[c] = "readpayload"
  /\ \E e \in Payloads(p, msg_len[c]), nonce \in p.nonces :
       /\ encrypted_msg' = [encrypted_msg EXCEPT ![c] = e]
       /\ SendEncrypted(c, ProcessMessage(e, handlers, default_handler), nonce)
  /\ nread' = [nread EXCEPT ![c] = @ + 1]
  /\ pc' = [pc EXCEPT ![c] = "drain"]
  /\ UNCHANGED << conn_id, msg_len, sock, nprefix, exit, connection_id >>
  /\ UNCHANGED srv_vars
  /\ UNCHANGED hist_vars

\* the bytes that came in before the timeout or EOF are taken for the
\* payload (reader.read in place of reader.readexactly)
ReadPayloadShort(c) ==
  /\ pc[c] = "readpayload"
  /\ \E k \in PartialLens(msg_len[c]) :
       /\ encrypted_msg' = [encrypted_msg EXCEPT ![c] = RawBytes(k)]
       /\ SendEncrypted(c, ProcessMessage(RawBytes(k), handlers, default_handler), 1)
  /\ nread' = [nread EXCEPT ![c] = @ + 1]
  /\ pc' = [pc EXCEPT ![c] = "drain"]
  /\ UNCHANGED << conn_id, msg_len, sock, nprefix, exit, connection_id >>
  /\ UNCHANGED srv_vars
  /\ UNCHANGED hist_vars

\* readexactly(msg_len) times out or hits EOF with fewer than msg_len bytes
\* in: the bytes stay in the exception, break
ReadPayloadTruncated(c) ==
  /\ pc[c] = "readpayload"
  /\ PartialLens(msg_len[c]) # {}
  /\ pc' = [pc EXCEPT ![c] = "finally"]
  /\ exit' = [exit EXCEPT ![c] = "truncated"]
  /\ UNCHANGED << conn_id, msg_len, encrypted_msg, sock, nprefix, nread, written, connection_id >>
  /\ UNCHANGED srv_vars
  /\ UNCHANGED hist_vars

\* await writer.drain() returns: back to the top of the loop
Drain(c) ==
  /\ pc[c] = "drain"
  /\ LoopTop(c)
  /\ msg_len' = [msg_len EXCEPT ![c] = -1]
  /\ encrypted_msg' = [encrypted_msg EXCEPT ![c] = NoBytes]
  /\ UNCHANGED << conn_id, sock, nprefix, nread, written, connection_id >>
  /\ UNCHANGED srv_vars
  /\ UNCHANGED hist_vars

\* await writer.drain() raises: _send_encrypted logs and re-raises
DrainError(c) ==
  /\ pc[c] \in {"drain", "notice_drain"}
  /\ ConnError(c)
  /\ UNCHANGED << conn_id, msg_len, encrypted_msg, sock, nprefix, nread, written, connection_id >>
  /\ UNCHANGED srv_vars
  /\ UNCHANGED hist_vars

\* _send_error after its drain: writer.close(), up to await wait_closed()
NoticeDrain(c) ==
  /\ pc[c] = "notice_drain"
  /\ sock' = [sock EXCEPT ![c] = "closed"]
  /\ pc' = [pc EXCEPT ![c] = "notice_wait_closed"]
  /\ UNCHANGED << conn_id, msg_len, encrypted_msg, nprefix, nread, written, exit, connection_id >>
  /\ UNCHANGED srv_vars
  /\ UNCHANGED hist_vars

\* _send_error returns: break
NoticeClosed(c) ==
  /\ pc[c] = "notice_wait_closed"
  /\ pc' = [pc EXCEPT ![c] = "finally"]
  /\ UNCHANGED << conn_id, msg_len, encrypted_msg, sock, nprefix, nread, written, exit, connection_id >>
  /\ UNCHANGED srv_vars
  /\ UNCHANGED hist_vars

\* the finally block awaits wait_closed() without calling writer.close()
FinallySkipsClose(c) ==
  /\ pc[c] = "finally"
  /\ pc' = [pc EXCEPT ![c] = "wait_closed"]
  /\ UNCHANGED << conn_id, msg_len, encrypted_msg, sock, nprefix, nread, written, exit, connection_id >>
  /\ UNCHANGED srv_vars
  /\ UNCHANGED hist_vars

\* finally: writer.close(), up to await writer.wait_closed()
Finally(c) ==
  /\ pc[c] = "finally"
  /\ sock' = [sock EXCEPT ![c] = "closed"]
  /\ pc' = [pc EXCEPT ![c] = "wait_closed"]
  /\ UNCHANGED << conn_id, msg_len, encrypted_msg, nprefix, nread, written, exit, connection_id >>
  /\ UNCHANGED srv_vars
  /\ UNCHANGED hist_vars

\* wait_closed() returns (or raises, which is swallowed): the task ends
ConnDone(c) ==
  /\ pc[c] = "wait_closed"
  /\ pc' = [pc EXCEPT ![c] = "done"]
  /\ UNCHANGED << conn_id, msg_len, encrypted_msg, sock, nprefix, nread, written, exit, connection_id >>
  /\ UNCHANGED srv_vars
  /\ UNCHANGED hist_vars

ConnStep(c, p) ==
  \/ Accept(c)
  \/ ConnStart(c)
  \/ ReadLen(c, p)
  \/ ReadLenIdle(c)
  \/ ReadError(c)
  \/ ReadPayload(c, p)
  \/ ReadPayloadTruncated(c)
  \/ Drain(c)
  \/ DrainError(c)
  \/ NoticeDrain(c)
  \/ NoticeClosed(c)
  \/ Finally(c)
  \/ ConnDone(c)

StartStep(t) ==
  \/ StartCall(t)
  \/ StartBindOk(t)
  \/ StartBindFail(t)
  \/ CancelStart(t)
  \/ StartUnwind(t)

ServerStep ==
  \/ \E t \in 1..MaxStarts : StartStep(t)
  \/ Stop

\* every start() call of the run
LifeServerStep ==
  \/ \E t \in Starters : StartStep(t)
  \/ Stop

\* a server started once, its start() task never cancelled
FirstServerStep ==
  \/ StartCall(1)
  \/ StartBindOk(1)
  \/ StartBindFail(1)
  \/ StartUnwind(1)
  \/ Stop

\* one connection, a peer sending every kind of frame
Next ==
  \/ ServerStep
  \/ ConnStep(1, RichPeer)

Spec == Init /\ [][Next]_vars

\* MaxConns connections open at the same time
NextPair ==
  \/ FirstServerStep
  \/ \E c \in Conns : ConnStep(c, PairPeer)

SpecPair == Init /\ [][NextPair]_vars

\* the server's life: every start() call and stop() call interleaved, with
\* one connection
NextLife ==
  \/ LifeServerStep
  \/ ConnStep(1, LifePeer)

SpecLife == Init /\ [][NextLife]_vars

\* the application registers handlers and sets the default handler while a
\* connection is served
NextRegistry ==
  \/ FirstServerStep
  \/ ConnStep(1, RegistryPeer)
  \/ \E m \in RegNames, h \in RegHandlers : RegisterHandler(m, h)
  \/ \E h \in DefaultHandlers : SetDefaultHandler(h)

SpecRegistry == Init /\ [][NextRegistry]_vars

\* one connection to a server whose size limit comes from a configuration file
SpecConfig == InitConfig /\ [][Next]_vars

\* a read of connection c ends: the bytes arrive, or asyncio.wait_for times
\* out
ReadEnds(c, p) ==
  \/ ReadLen(c, p)
  \/ ReadLenIdle(c)
  \/ ReadPayload(c, p)
  \/ ReadPayloadTruncated(c)

\* the event loop runs a task that is ready: a spawned connection task gets
\* its first turn, and a task that left the loop reaches its finally block
TaskRuns(c) ==
  \/ ConnStart(c)
  \/ NoticeClosed(c)
  \/ Finally(c)
  \/ ConnDone(c)

\* the server's life with one connection, every read timeout firing and the
\* event loop running every ready task; nothing is assumed of writer.drain(),
\* which has no timeout
SpecShutdown ==
  /\ Init
  /\ [][NextLife]_vars
  /\ WF_vars(ReadEnds(1, LifePeer))
  /\ WF_vars(TaskRuns(1))

(* ====================== what the claims are stated with ================ *)
\* the response a peer holding the channel key reads out of a written frame
\* the two writes of a frame, in the order they were made
FramePrefix(f) == f[1]
FrameBody(f) == f[2]
PeerOpen(f) == Decrypt(aes_key, FrameBody(f)).val.doc

IsErrorResponse(r) == r.jsonrpc = "2.0" /\ r.keys = {"jsonrpc", "error"}
IsResultResponse(r) == r.jsonrpc = "2.0" /\ r.keys = {"jsonrpc", "result"}
ErrorResponse(code, message) ==
  [jsonrpc |-> "2.0", keys |-> {"jsonrpc", "error"}, result |-> NoneVal,
   error |-> ErrorObj(code, message)]
ResultResponse(v) ==
  [jsonrpc |-> "2.0", keys |-> {"jsonrpc", "result"}, result |-> v, error |-> NoneVal]

\* connection c has sent its response to the writer and awaits the flush
Answering(c) == pc[c] = "drain"
\* the frame connection c is answering decrypts under the channel key
DecryptsOk(c) == Decrypt(aes_key, encrypted_msg[c]).ok
\* the JSON document inside the frame connection c is answering
RequestOf(c) == Decrypt(aes_key, encrypted_msg[c]).val.doc
\* the last frame written on connection c
LastWritten(c) == written[c][Len(written[c])]
\* connection c read a length prefix above the limit
Oversized(c) == msg_len[c] > max_size
\* the frames connection c's peer is owed: one per payload fully read, and
\* the notice for an oversized prefix
FramesOwed(c) == nread[c] + (IF Oversized(c) THEN 1 ELSE 0)
InLoop(c) == pc[c] \in {"readlen", "readpayload", "drain"}
LeftLoop(c) == pc[c] \in {"notice_drain", "notice_wait_closed", "finally", "wait_closed", "done"}

(* ------------------------------- C1 ----------------------------------- *)
\* C1 (as claimed): a frame within the size limit that decrypts and carries
\* a JSON request naming a registered handler which returns is answered with
\* {jsonrpc: "2.0", result: <the handler's return value>}.
C1_RequestDispatched ==
  \A c \in Conns :
    ( /\ Answering(c)
      /\ encrypted_msg[c].len <= max_message_size
      /\ DecryptsOk(c)
      /\ RequestOf(c).json
      /\ RequestOf(c).method \in DOMAIN handlers
      /\ CallHandler(handlers[RequestOf(c).method], RequestOf(c).params).ok )
    => PeerOpen(LastWritten(c)) =
         ResultResponse(CallHandler(handlers[RequestOf(c).method], RequestOf(c).params).val)

(* ------------------------------- C2 ----------------------------------- *)
\* C2: on one connection requests are handled one at a time in arrival
\* order: whenever the loop waits for a length prefix or a payload, every
\* payload fully read so far has had its response written, and the k-th
\* frame written is the response to the k-th payload read (the frame just
\* written, while it is flushed, answers the payload just read).
C2_InOrder ==
  \A c \in Conns :
    /\ InLoop(c) => Len(written[c]) = nread[c]
    /\ Answering(c) =>
         /\ nread[c] >= 1
         /\ PeerOpen(written[c][nread[c]]) =
              ProcessMessage(encrypted_msg[c], handlers, default_handler)

C2_Witness ==
  /\ pc[1] = "drain"
  /\ nread[1] = 2
  /\ Len(written[1]) = 2
  /\ PeerOpen(written[1][1]) # PeerOpen(written[1][2])

(* ------------------------------- C3 ----------------------------------- *)
\* C3: with several connections open and interleaving at every await, a
\* response is written only to the connection its request was read from:
\* each connection holds exactly the frames owed to its own peer, and the
\* frame being flushed on a connection answers that connection's own payload.
C3_Isolation ==
  \A c \in Conns :
    /\ Len(written[c]) = FramesOwed(c)
    /\ Len(written[c]) <= nprefix[c]
    /\ Answering(c) =>
         PeerOpen(LastWritten(c)) = ProcessMessage(encrypted_msg[c], handlers, default_handler)

C3_Witness ==
  /\ pc[1] = "drain"
  /\ pc[2] = "drain"
  /\ nread[1] = 2
  /\ nread[2] = 1
  /\ PeerOpen(LastWritten(1)) # PeerOpen(LastWritten(2))

(* ------------------------------- C4 ----------------------------------- *)
\* C4: a connection's task leaves its loop only on an idle timeout or peer
\* close while waiting for a length prefix, an oversized prefix, a truncated
\* payload, a socket error, or the shutdown flag seen at the top of the
\* loop.  The step that leaves the loop never is the step that read a
\* payload: a fully read frame gets its response and the loop goes on.
C4_LeaveStep(c) ==
  (exit[c] = "none" /\ exit'[c] # "none") =>
    /\ nread'[c] = nread[c]
    /\ \/ exit'[c] = "idle" /\ pc[c] = "readlen"
       \/ exit'[c] = "too_large" /\ pc[c] = "readlen" /\ msg_len'[c] > max_message_size
       \/ exit'[c] = "truncated" /\ pc[c] = "readpayload"
       \/ exit'[c] = "error" /\ pc[c] \in {"readlen", "readpayload", "drain"}
       \/ exit'[c] = "shutdown" /\ ~running /\ pc[c] \in {"spawned", "drain"}

C4_StayStep(c) ==
  /\ (InLoop(c) /\ LeftLoop(c)') => exit'[c] # "none"
  /\ (pc[c] = "readpayload" /\ nread'[c] # nread[c]) =>
       /\ pc'[c] = "drain"
       /\ exit'[c] = "none"
       /\ sock'[c] = "open"
       /\ Len(written'[c]) = Len(written[c]) + 1

\* C4: every step of every connection leaves the loop only for a listed cause
\* and answers the payload it read
C4_ExitCauses == [][\A c \in Conns : C4_LeaveStep(c) /\ C4_StayStep(c)]_vars

C4_Witness ==
  /\ pc[1] = "readpayload"
  /\ nread[1] = 1
  /\ IsErrorResponse(PeerOpen(written[1][1]))
  /\ exit[1] = "none"

(* ------------------------------- C5 ----------------------------------- *)
\* C5: every fully read frame is answered with exactly one frame, which
\* holds a result or a structured error object {code, message}: at any
\* moment the frames written on a connection are one per payload read
\* (and the notice for an oversized prefix), each a well-formed response.
C5_WellFormed(r) ==
  \/ IsResultResponse(r) /\ r.error = NoneVal
  \/ /\ IsErrorResponse(r)
     /\ r.result = NoneVal
     /\ DOMAIN r.error = {"t", "code", "message"}

C6_Step(c) ==
  /\ ( /\ pc[c] = "readpayload"
       /\ nread'[c] = nread[c] + 1
       /\ ~Decrypt(aes_key, encrypted_msg'[c]).ok ) =>
       /\ pc'[c] = "drain"
       /\ written'[c] = Append(written[c], LastWritten(c)')
       /\ PeerOpen(LastWritten(c)').error.code = "internal_error"
  /\ (Answering(c) /\ ~DecryptsOk(c)) =>
       /\ Len(written[c]) = nread[c]
       /\ IsErrorResponse(PeerOpen(LastWritten(c)))
       /\ PeerOpen(LastWritten(c)).error.code = "internal_error"
       /\ sock[c] = "open"
       /\ exit[c] = "none"
       /\ pc'[c] # pc[c] =>
            \/ pc'[c] = "readlen" /\ sock'[c] = "open" /\ written'[c] = written[c]
            \/ pc'[c] = "finally" /\ exit'[c] = "shutdown" /\ ~running
            \/ pc'[c] = "finally" /\ exit'[c] = "error"

\* C6: a payload that fails decryption is answered with internal_error and
\* the connection stays in its loop
C6_DecryptFailure == [][\A c \in Conns : C6_Step(c)]_vars

C6_Witness ==
  /\ pc[1] = "readpayload"
  /\ nread[1] = 1
  /\ Len(written[1]) = 1
  /\ PeerOpen(written[1][1]) = ErrorResponse("internal_error", "Invalid encrypted data")
  /\ FrameBody(written[1][1]).len >= MinEnvelopeLen
  /\ sock[1] = "open"

(* ------------------------------- C7 ----------------------------------- *)
\* C7 (as claimed): when the handler a request names raises, the request is
\* answered with {code: "internal_error", message: <description of the
\* exception>}.
C7_HandlerErrorReported ==
  \A c \in Conns :
    ( /\ Answering(c)
      /\ DecryptsOk(c)
      /\ RequestOf(c).json
      /\ RequestOf(c).method \in DOMAIN handlers
      /\ ~CallHandler(handlers[RequestOf(c).method], RequestOf(c).params).ok )
    => PeerOpen(LastWritten(c)) =
         ErrorResponse("internal_error",
                       CallHandler(handlers[RequestOf(c).method], RequestOf(c).params).msg)

(* ------------------------------- C8 ----------------------------------- *)
\* C8 (as claimed): a request with a missing or empty method, or with a
\* method that names no registered handler while no default handler is set,
\* is answered with an error whose code is invalid_request and whose
\* message is "No method specified", respectively "Unknown method: <name>".
C8_InvalidRequest ==
  \A c \in Conns :
    ( /\ Answering(c)
      /\ DecryptsOk(c)
      /\ RequestOf(c).json )
    => /\ RequestOf(c).method \in {Absent, ""} =>
            PeerOpen(LastWritten(c)) = ErrorResponse("invalid_request", "No method specified")
       /\ ( /\ RequestOf(c).method \notin {Absent, ""}
            /\ RequestOf(c).method \notin DOMAIN handlers
            /\ default_handler = Absent ) =>
            PeerOpen(LastWritten(c)) =
              ErrorResponse("invalid_request", "Unknown method: " \o RequestOf(c).method)

(* ------------------------------- C9 ----------------------------------- *)
\* C9: after a length prefix above max_message_size the server reads none
\* of the announced payload, writes exactly one error envelope with code
\* message_too_large, and closes: from then on nothing is read from or
\* written to that connection, and the task ends with the socket closed.
C9_State(c) ==
  Oversized(c) =>
    /\ LeftLoop(c)
    /\ Len(written[c]) = nread[c] + 1
    /\ PeerOpen(LastWritten(c)) =
         ErrorResponse("message_too_large", "Message exceeds maximum size")
    /\ pc[c] = "done" => sock[c] = "closed"
    /\ (pc[c] \in {"notice_wait_closed", "finally"} /\ exit[c] = "too_large") =>
         sock[c] = "closed"

C9_Step(c) ==
  /\ (~Oversized(c) /\ Oversized(c)') =>
       /\ nread'[c] = nread[c]
       /\ encrypted_msg'[c] = encrypted_msg[c]
       /\ Len(written'[c]) = Len(written[c]) + 1
  /\ Oversized(c) =>
       /\ written'[c] = written[c]
       /\ nread'[c] = nread[c]
       /\ nprefix'[c] = nprefix[c]
       /\ msg_len'[c] = msg_len[c]
       /\ sock[c] = "closed" => sock'[c] = "closed"

\* C9: one message_too_large notice, nothing read or written afterwards,
\* the socket closed
C9_TooLarge == [][\A c \in Conns : C9_State(c) /\ C9_State(c)' /\ C9_Step(c)]_vars

C9_Witness ==
  /\ pc[1] = "done"
  /\ exit[1] = "too_large"
  /\ msg_len[1] = max_message_size + 1
  /\ nread[1] = 1
  /\ Len(written[1]) = 2
  /\ sock[1] = "closed"

(* ------------------------------- C10 ---------------------------------- *)
\* C10: the size check is strict at the boundary: a prefix equal to
\* max_message_size is accepted and its payload is read, a prefix of
\* max_message_size + 1 or more is rejected as too large.
C10_Boundary ==
  \A c \in Conns :
    /\ pc[c] \in {"readpayload", "drain"} =>
         (msg_len[c] >= 0 /\ msg_len[c] <= max_message_size)
    /\ (msg_len[c] >= 0 /\ msg_len[c] <= max_message_size) =>
         /\ pc[c] \notin {"notice_drain", "notice_wait_closed"}
         /\ exit[c] # "too_large"
         /\ Len(written[c]) = nread[c]
    /\ msg_len[c] >= max_message_size + 1 =>
         /\ LeftLoop(c)
         /\ exit[c] \in {"too_large", "error"}
         /\ Len(written[c]) = nread[c] + 1
         /\ PeerOpen(LastWritten(c)).error.code = "message_too_large"
    /\ Answering(c) => encrypted_msg[c].len = msg_len[c]

C10_Witness ==
  /\ Answering(1)
  /\ msg_len[1] = max_message_size
  /\ encrypted_msg[1].len = max_message_size
  /\ nread[1] = 1

(* ------------------------------- C11 ---------------------------------- *)
\* a payload read that ends by timeout or by EOF before the announced byte
\* count closes the connection without writing a frame and without
\* decrypting or dispatching the partial payload
C11_Step(c) ==
  /\ (exit[c] = "none" /\ exit'[c] = "truncated") =>
       /\ pc[c] = "readpayload" /\ pc'[c] = "finally"
       /\ written'[c] = written[c]
       /\ nread'[c] = nread[c]
       /\ encrypted_msg'[c] = encrypted_msg[c]
  /\ nread'[c] # nread[c] =>
       /\ pc[c] = "readpayload"
       /\ encrypted_msg'[c].len = msg_len[c]
  /\ written'[c] # written[c] =>
       \/ pc[c] = "readpayload" /\ encrypted_msg'[c].len = msg_len[c]
       \/ pc[c] = "readlen" /\ exit'[c] = "too_large"

C11_State(c) ==
  /\ Answering(c) => encrypted_msg[c].len = msg_len[c]
  /\ exit[c] = "truncated" =>
       /\ LeftLoop(c)
       /\ Len(written[c]) = nread[c]
       /\ nprefix[c] = nread[c] + 1
       /\ sock[c] = "closed" \/ pc[c] = "finally"

\* C11: a payload read that ends by timeout or by EOF before the announced
\* byte count closes the connection without writing a frame, and the partial
\* payload is neither decrypted nor dispatched (no payload is counted as
\* read, the task goes straight to its finally block); a payload is
\* dispatched, and a response written, only when exactly the announced
\* number of bytes was read.
C11_TruncatedPayload ==
  [][\A c \in Conns : C11_State(c) /\ C11_State(c)' /\ C11_Step(c)]_vars

C11_Witness ==
  /\ exit[1] = "truncated"
  /\ pc[1] = "done"
  /\ sock[1] = "closed"
  /\ nprefix[1] = 2
  /\ nread[1] = 1
  /\ Len(written[1]) = 1

(* ------------------------------- C12 ---------------------------------- *)
\* the wait for a length prefix ends by timeout or EOF: the loop is left
\* with nothing written and nothing taken for a prefix
C12_Step(c) ==
  /\ (exit[c] = "none" /\ exit'[c] = "idle") =>
       /\ pc[c] = "readlen" /\ pc'[c] = "finally"
       /\ written'[c] = written[c]
       /\ nprefix'[c] = nprefix[c]
       /\ nread'[c] = nread[c]
       /\ msg_len'[c] = msg_len[c]
  /\ exit[c] = "idle" =>
       /\ written'[c] = written[c]
       /\ exit'[c] = "idle"
       /\ sock[c] = "closed" => sock'[c] = "closed"

C12_State(c) ==
  exit[c] = "idle" =>
    /\ LeftLoop(c)
    /\ nprefix[c] = nread[c]
    /\ Len(written[c]) = nread[c]
    /\ \A k \in 1..Len(written[c]) :
         ~ ( /\ IsErrorResponse(PeerOpen(written[c][k]))
             /\ PeerOpen(written[c][k]).error.code \in {"message_too_large", "timeout"} )
    /\ sock[c] = "closed" \/ pc[c] = "finally"

\* C12: when the wait for a length prefix ends by timeout or because the
\* peer closed (also with fewer than 4 prefix bytes in), the connection ends
\* gracefully: it is closed and no error envelope or other frame is written
\* for it, so the frames on the connection are the responses to the payloads
\* read before.
C12_IdleClose ==
  [][\A c \in Conns : C12_State(c) /\ C12_State(c)' /\ C12_Step(c)]_vars

C12_Witness ==
  /\ exit[1] = "idle"
  /\ pc[1] = "done"
  /\ sock[1] = "closed"
  /\ nprefix[1] = 1
  /\ nread[1] = 1
  /\ Len(written[1]) = 1

(* ------------------------------- C13 ---------------------------------- *)
\* some listening socket is open and accepting
Listening == \E t \in Starters : lsn[t] = "open"

\* C13 (as claimed): stop() called while the server is Running closes the
\* listening socket and leaves the server Stopped: from that stop() until
\* start() is called again the running flag is false, no listener is open,
\* and no connection is accepted (no connection task is spawned).
C13_StopClosesListener ==
  [][ /\ stopped' => (~running' /\ ~Listening')
      /\ stopped => \A c \in Conns : pc[c] = "none" => pc'[c] = "none" ]_vars

(* ------------------------------- C14 ---------------------------------- *)
\* connection c's task is at the top of its loop: about to test self.running
AtLoopTop(c) == pc[c] \in {"spawned", "drain"}

\* C14 (as claimed): once stop() has run, every connection that was open at
\* that moment leaves its loop at the next top of the loop: it finishes at
\* most the frame it was waiting for or processing and never begins another
\* length-prefix read, whatever is called on the server afterwards.
C14_ObservesShutdown ==
  [][ \A c \in Conns :
        (at_stop[c] # "none" /\ AtLoopTop(c) /\ pc'[c] # pc[c]) =>
          /\ pc'[c] = "finally"
          /\ exit'[c] \in {"shutdown", "error"} ]_vars

(* ------------------------------- C15 ---------------------------------- *)
\* a stop() call that took effect: the flag goes down and no start() call moves
StopStep == running /\ ~running' /\ spc' = spc

C15_Step(c) ==
  /\ StopStep =>
       /\ pc'[c] = pc[c] /\ sock'[c] = sock[c] /\ exit'[c] = exit[c]
       /\ written'[c] = written[c] /\ nread'[c] = nread[c] /\ nprefix'[c] = nprefix[c]
       /\ msg_len'[c] = msg_len[c] /\ encrypted_msg'[c] = encrypted_msg[c]
       /\ conn_id'[c] = conn_id[c] /\ connection_id' = connection_id
  /\ (~running /\ pc[c] = "readpayload" /\ nread'[c] # nread[c]) =>
       /\ Len(written'[c]) = Len(written[c]) + 1
       /\ PeerOpen(LastWritten(c)') = ProcessMessage(encrypted_msg'[c], handlers, default_handler)
       /\ pc'[c] = "drain"
  /\ (exit[c] = "none" /\ exit'[c] = "shutdown") =>
       /\ AtLoopTop(c)
       /\ written'[c] = written[c]
       /\ Len(written[c]) = nread[c]
       /\ nprefix[c] = nread[c]

\* C15: stop() does not close, cancel or otherwise change an accepted
\* connection; a connection reading a payload, dispatching or writing when
\* stop() runs goes on as before, so the payload it reads is answered and the
\* task leaves by the shutdown test only at the top of its loop, with every
\* payload read answered.
C15_StopLeavesConnections ==
  [][\A c \in Conns : C15_Step(c)]_vars

C15_Witness ==
  /\ at_stop[1] = "busy"
  /\ exit[1] = "shutdown"
  /\ pc[1] = "done"
  /\ nread[1] = 1
  /\ Len(written[1]) = 1
  /\ IsErrorResponse(PeerOpen(written[1][1]))

(* ------------------------------- C16 ---------------------------------- *)
\* start() call t is made: it leaves "new"
Called(t) == spc[t] = "new" /\ spc'[t] # "new"

\* C16: start() called while the server is already running (the flag is
\* set) is a no-op: the call returns at once without binding a listening
\* socket, and the running flag, the server handle, the listeners, the
\* method registry, the default handler and every connection are unchanged.
C16_StartWhileRunning ==
  [][ \A t \in Starters :
        (Called(t) /\ running) =>
          /\ spc'[t] = "returned"
          /\ \A u \in Starters \ {t} : spc'[u] = spc[u]
          /\ running' = running /\ server' = server /\ lsn' = lsn
          /\ handlers' = handlers /\ default_handler' = default_handler
          /\ max_size' = max_size /\ connection_id' = connection_id
          /\ UNCHANGED conn_vars ]_vars

C16_Witness ==
  /\ \E t \in Starters : spc[t] = "returned" /\ lsn[t] = "none"
  /\ \E u \in Starters : spc[u] = "serving" /\ lsn[u] = "open" /\ server = u
  /\ running
  /\ pc[1] = "readpayload"

(* ------------------------------- C17 ---------------------------------- *)
\* C17: when the bind of start() call t fails, the call raises, it leaves no
\* listener of its own and no new server handle behind, the running flag is
\* false and nothing else has changed; and a start() call made while the
\* flag is false (as after the failure) goes on to bind again.
C17_BindFailure ==
  [][ \A t \in Starters :
        /\ (spc[t] = "binding" /\ spc'[t] \notin {"binding", "serving"}) =>
             /\ spc'[t] = "raised"
             /\ ~running'
             /\ lsn'[t] = "none" /\ lsn' = lsn /\ server' = server
             /\ handlers' = handlers /\ default_handler' = default_handler
             /\ UNCHANGED conn_vars
        /\ spc[t] = "raised" => spc'[t] = "raised" /\ lsn'[t] = "none"
        /\ (Called(t) /\ ~running) => (spc'[t] = "binding" /\ running') ]_vars

C17_Witness ==
  /\ spc[1] = "raised"
  /\ lsn[1] = "none"
  /\ spc[2] = "serving"
  /\ lsn[2] = "open"
  /\ server = 2
  /\ running

(* ------------------------------- C18 ---------------------------------- *)
\* what a handler may return: the results of the registered handlers on the
\* params of the modelled requests, a custom handler's result, and None
C18_Results ==
  { CallHandler(h, d.params).val :
      <<h, d>> \in { x \in ({InitHandlers[m] : m \in DOMAIN InitHandlers} \cup {"custom"})
                            \X RequestDocs : CallHandler(x[1], x[2].params).ok } }
    \cup {NoneVal}
\* the error objects the server builds
C18_Errors ==
  { ErrorObj("internal_error", m) :
      m \in {"Invalid encrypted data", "Invalid authentication tag", "No method specified",
              "No module specified", "'bytes' object has no attribute 'get'"} }
    \cup {ErrorObj("message_too_large", "Message exceeds maximum size")}

C18_OneOf(r) ==
  /\ r.jsonrpc = "2.0"
  /\ "jsonrpc" \in r.keys
  /\ Cardinality(r.keys \cap {"result", "error"}) = 1
  /\ r.keys \subseteq {"jsonrpc", "result", "error"}

\* C18: every response object the server sends has jsonrpc "2.0" and exactly
\* one of the keys result and error: every frame written carries such an
\* object, and _create_response builds such an object from a handler result
\* (None included) and from every error object, and refuses to build one
\* from both.
C18_ResponseShape ==
  /\ \A c \in Conns : \A k \in 1..Len(written[c]) :
       /\ Decrypt(aes_key, FrameBody(written[c][k])).ok
       /\ C18_OneOf(PeerOpen(written[c][k]))
  /\ \A result \in C18_Results :
       /\ CreateResponse(result, NoneVal).ok
       /\ C18_OneOf(CreateResponse(result, NoneVal).val)
       /\ "result" \in CreateResponse(result, NoneVal).val.keys
  /\ \A error \in C18_Errors :
       /\ CreateResponse(NoneVal, error).ok
       /\ C18_OneOf(CreateResponse(NoneVal, error).val)
       /\ "error" \in CreateResponse(NoneVal, error).val.keys
       /\ \A result \in C18_Results \ {NoneVal} : ~CreateResponse(result, error).ok

C18_Witness ==
  /\ Len(written[1]) = 2
  /\ PeerOpen(written[1][1]).error.code = "internal_error"
  /\ PeerOpen(written[1][2]).error.code = "message_too_large"
  /\ Cardinality(C18_Results) >= 4

(* ------------------------------- C19 ---------------------------------- *)
\* a 4-byte string
IsU32(b) == DOMAIN b = 1..PrefixLen /\ \A i \in 1..PrefixLen : b[i] \in 0..255

\* C19: every frame the server writes is two writes, first the 4-byte
\* big-endian length prefix and then the envelope; the prefix equals the
\* envelope's length, and the envelope is the 12-byte nonce, a ciphertext as
\* long as the plaintext and the 16-byte tag, so at least 28 bytes (28 for
\* an empty plaintext).
C19_FrameFormat ==
  /\ \A c \in Conns : \A k \in 1..Len(written[c]) :
       LET f == written[c][k] IN
       /\ Len(f) = 2
       /\ IsU32(FramePrefix(f))
       /\ FramePrefix(f) = PackU32(FrameBody(f).len)
       /\ UnpackU32(FramePrefix(f)) = FrameBody(f).len
       /\ FrameBody(f).len = NonceLen + FrameBody(f).pt.size + TagLen
       /\ FrameBody(f).len >= MinEnvelopeLen
       /\ FrameBody(f).nonce \in Nonces
  /\ \A n \in {0, 1, ReqSize} :
       Encrypt(aes_key, 1, Bytes(NotJson, n)).len = MinEnvelopeLen + n

C19_Witness ==
  /\ Len(written[1]) = 2
  /\ UnpackU32(FramePrefix(written[1][1])) # UnpackU32(FramePrefix(written[1][2]))
  /\ FrameBody(written[1][2]).len > MinEnvelopeLen

(* ------------------------------- C20 ---------------------------------- *)
\* C20 (as claimed): every frame the server writes has a length prefix no
\* greater than the configured max_message_size.
C20_WrittenWithinLimit ==
  \A c \in Conns : \A k \in 1..Len(written[c]) :
    UnpackU32(FramePrefix(written[c][k])) <= max_size

(* ------------------------------- C21 ---------------------------------- *)
\* the accept path or the task of connection c takes a step
ConnMoves(c) == pc'[c] # pc[c]
\* the step leaves everything that belongs to the other connections alone
OthersUntouched(c) ==
  \A b \in Conns \ {c} :
    /\ pc'[b] = pc[b] /\ conn_id'[b] = conn_id[b] /\ msg_len'[b] = msg_len[b]
    /\ encrypted_msg'[b] = encrypted_msg[b] /\ sock'[b] = sock[b]
    /\ nprefix'[b] = nprefix[b] /\ nread'[b] = nread[b]
    /\ written'[b] = written[b] /\ exit'[b] = exit[b]

\* C21 (as claimed): the accept path and the connection tasks write no
\* state shared between connections: a step of connection c changes no field
\* of the server object and nothing that belongs to another connection.
C21_NoSharedWrites ==
  [][ \A c \in Conns :
        ConnMoves(c) =>
          /\ UNCHANGED srv_vars
          /\ connection_id' = connection_id
          /\ OthersUntouched(c) ]_vars

\* C21 (amended): the only shared state a connection task writes is the
\* counter self._connection_id, which it reads into its own conn_id and
\* increments in its first step; the registry, the default handler, the
\* flag, the server handle and the configuration are only read, and
\* everything else a step modifies belongs to its own connection.
C21_OnlyCounterShared ==
  [][ \A c \in Conns :
        ConnMoves(c) =>
          /\ UNCHANGED srv_vars
          /\ OthersUntouched(c)
          /\ connection_id' # connection_id =>
               /\ pc[c] = "spawned"
               /\ conn_id'[c] = connection_id
               /\ connection_id' = connection_id + 1
          /\ pc[c] # "spawned" => conn_id'[c] = conn_id[c] ]_vars

C21_Witness ==
  /\ conn_id[1] = 1
  /\ conn_id[2] = 0
  /\ connection_id = 2
  /\ Len(written[1]) >= 1
  /\ Len(written[2]) >= 1

(* ------------------------------- C22 ---------------------------------- *)
\* connection c reads a whole payload in this step
ReadsPayload(c) == pc[c] = "readpayload" /\ nread'[c] = nread[c] + 1
\* the response that reports the outcome r of the one callable invoked
ResponseOf(r) ==
  IF r.ok THEN ResultResponse(r.val) ELSE ErrorResponse("internal_error", r.msg)

\* C22 (as claimed): a request that names a method invokes exactly one
\* callable: the handler registered under the name, with params, when there
\* is one, otherwise the default handler, with the name and params, when one
\* is set; the response carries what that callable returned.
C22_Dispatch ==
  [][ \A c \in Conns :
        LET d == Decrypt(aes_key, encrypted_msg'[c]).val.doc IN
        ( /\ ReadsPayload(c)
          /\ Decrypt(aes_key, encrypted_msg'[c]).ok
          /\ d.json
          /\ d.method \notin {Absent, ""} ) =>
          /\ d.method \in DOMAIN handlers =>
               PeerOpen(LastWritten(c)') = ResponseOf(CallHandler(handlers[d.method], d.params))
          /\ (d.method \notin DOMAIN handlers /\ default_handler # Absent) =>
               PeerOpen(LastWritten(c)') = ResultResponse(Result("default", d.method, 16)) ]_vars

(* ------------------------------- C23 ---------------------------------- *)
\* C23 (as claimed): register is last-write-wins: the registry holds under
\* each name the handler last registered for it, a registration changes no
\* other entry and not the default handler, and a request for a name that
\* is dispatched after a registration, on any connection, is answered by
\* the handler last registered under that name.
C23_LastWriteWins ==
  [][ /\ \A m \in RegNames :
           /\ registered'[m] # "none" =>
                (m \in DOMAIN handlers' /\ handlers'[m] = registered'[m])
           /\ registered'[m] # registered[m] =>
                /\ \A x \in DOMAIN handlers \ {m} :
                     x \in DOMAIN handlers' /\ handlers'[x] = handlers[x]
                /\ DOMAIN handlers' = DOMAIN handlers \cup {m}
                /\ default_handler' = default_handler
      /\ \A c \in Conns :
           LET d == Decrypt(aes_key, encrypted_msg'[c]).val.doc IN
           ( /\ ReadsPayload(c)
             /\ Decrypt(aes_key, encrypted_msg'[c]).ok
             /\ d.json
             /\ d.method \in RegNames
             /\ registered[d.method] # "none" ) =>
             PeerOpen(LastWritten(c)') =
               ResponseOf(CallHandler(registered[d.method], d.params)) ]_vars

(* ------------------------------- C24 ---------------------------------- *)
\* C24 (as claimed): on one connection a restart_module request with a
\* non-empty module m is answered with the result {status: "restarting",
\* module: m}, a restart_module request with no module (also one that
\* follows it) is answered with the error {code: "invalid_request",
\* message: "No module specified"}, and the connection stays open after each.
C24_RestartModule ==
  [][ \A c \in Conns :
        LET d == Decrypt(aes_key, encrypted_msg'[c]).val.doc IN
        ( /\ ReadsPayload(c)
          /\ Decrypt(aes_key, encrypted_msg'[c]).ok
          /\ d.json
          /\ d.method = "restart_module" ) =>
          /\ exit'[c] = "none" /\ sock'[c] = "open" /\ pc'[c] = "drain"
          /\ d.params.module \notin {Absent, ""} =>
               /\ IsResultResponse(PeerOpen(LastWritten(c)'))
               /\ PeerOpen(LastWritten(c)').result.status = "restarting"
               /\ PeerOpen(LastWritten(c)').result.detail = d.params.module
          /\ d.params.module \in {Absent, ""} =>
               PeerOpen(LastWritten(c)') =
                 ErrorResponse("invalid_request", "No module specified") ]_vars

(* ------------------------------- C25 ---------------------------------- *)
\* plaintexts: the empty one, one byte, a request, a response
C25_Plaintexts ==
  { Bytes(NotJson, 0), Bytes(NotJson, 1), Bytes(ReqPing, ReqSize),
    JsonDumps(ErrorResponse("internal_error", "Invalid encrypted data")) }

\* the envelope is what encrypt makes under the channel key, untouched
SealedByPeer(e) == e.key = aes_key /\ e.flip = "none"

C26_Spoilt ==
  { Envelope(aes_key, n, P, f) : n \in Nonces, P \in C25_Plaintexts, f \in {"ct", "tag"} }
    \cup { Envelope(OtherKey, n, P, "none") : n \in Nonces, P \in C25_Plaintexts }

LatestCancelled ==
  \E t \in Starters :
    /\ spc[t] = "cancelled"
    /\ \A u \in Starters : u > t => spc[u] = "new"

\* a stop() call is made in this step (seen when its outcome is not the
\* one of the stop() call before it)
StopCalled == last_stop' # last_stop /\ last_stop' # "none"

\* C27: when the task running start() is cancelled while the server is
\* serving, its listening socket is closed and start() unwinds with running
\* false; once the latest start() call has ended that way running is false,
\* and a stop() call made then returns as a no-op that changes nothing.
C27_CancelledStart ==
  [][ /\ \A t \in Starters :
           /\ spc'[t] \in {"cancelling", "cancelled"} => lsn'[t] = "closed"
           /\ (spc[t] = "cancelling" /\ spc'[t] # "cancelling") =>
                (spc'[t] = "cancelled" /\ ~running')
      /\ LatestCancelled' => ~running'
      /\ (LatestCancelled /\ StopCalled) =>
           /\ last_stop' = "noop"
           /\ UNCHANGED << srv_vars, connection_id, conn_vars, stopped, at_stop, registered >> ]_vars

C27_Witness ==
  /\ spc[1] = "cancelled"
  /\ spc[2] = "new"
  /\ lsn[1] = "closed"
  /\ ~running
  /\ last_stop = "noop"
  /\ ~stopped
  /\ pc[1] = "readlen"
  /\ at_stop[1] = "none"

(* ------------------------------- C28 ---------------------------------- *)
\* C28: stop() on a server that is not running (never started, already
\* stopped, start failed or ended, or still binding with no server handle)
\* raises nothing and changes nothing: the flag, the server handle, the
\* listeners, the registry and every connection stay as they are; and after
\* any stop() call the server is in such a state, so a second stop() in a
\* row is a no-op.
C28_StopWhenStopped ==
  [][ StopCalled =>
        /\ last_stop' \in {"noop", "closed"}
        /\ (~running \/ server = 0) =>
             /\ last_stop' = "noop"
             /\ UNCHANGED << srv_vars, connection_id, conn_vars, stopped, at_stop, registered >>
        /\ ~running' \/ server' = 0 ]_vars

C28_Witness ==
  /\ last_stop = "noop"
  /\ stopped
  /\ ~running
  /\ spc[1] = "cancelled"
  /\ spc[2] = "new"
  /\ lsn[1] = "closed"
  /\ server = 1

(* ------------------------------- C29 ---------------------------------- *)
\* C29: whenever a listening socket of the bus is open, the running flag is
\* true.
C29_ListeningImpliesRunning ==
  Listening => running

(* ------------------------------- C30 ---------------------------------- *)
\* C30: once a stop() call has returned, no listening socket is open, and
\* none is opened until start() is called again after that stop().
C30_StopTakesEffect ==
  (last_stop # "none") => ~Listening

(* ------------------------------- C31 ---------------------------------- *)
\* the start() calls that hold a listener or are binding one
Holding == { t \in Starters : lsn[t] = "open" \/ spc[t] = "binding" }

\* C31: at most one listener of the instance is open or being bound at any
\* time, under every interleaving of start() and stop() calls.
C31_OneListener ==
  Cardinality(Holding) <= 1

(* ------------------------------- C32 ---------------------------------- *)
\* a stop() call has returned and start() has not been called since
AfterStop == last_stop # "none"

\* connection c is suspended in writer.drain()
Flushing(c) == pc[c] \in {"drain", "notice_drain"}

\* C32 (as claimed): after stop() with no later start(), every read timeout
\* firing, every connection that is open eventually closes.
C32_ClosesAfterStop ==
  \A c \in Conns :
    (AfterStop /\ sock[c] = "open") ~> (sock[c] = "closed" \/ ~AfterStop)

\* C32 (amended): the same, provided no connection stays suspended in the
\* flush of a response for ever.
C32_ClosesUnlessFlushing ==
  (\A c \in Conns : []<>(~Flushing(c))) => C32_ClosesAfterStop

C32_Witness ==
  /\ last_stop = "closed"
  /\ at_stop[1] = "idle"
  /\ exit[1] = "idle"
  /\ sock[1] = "closed"
  /\ ~running

(* ------------------------------- C33 ---------------------------------- *)
\* connection c is suspended at an await of its task
Suspended(c) ==
  pc[c] \in {"readlen", "readpayload", "drain", "notice_drain", "notice_wait_closed", "wait_closed"}

\* C33: while a connection is suspended (waiting for a length prefix, for a
\* payload, or in a flush), every other connection can still have its next
\* prefix read, its payload read, dispatched and answered, and its flush
\* completed, and the listener can still accept a new connection (which
\* takes the lowest free index).
C33_NoBlocking ==
  \A c \in Conns : \A d \in Conns \ {c} :
    Suspended(c) =>
      /\ (pc[d] = "readlen" /\ nprefix[d] < PairPeer.frames) => ENABLED ReadLen(d, PairPeer)
      /\ (pc[d] = "readpayload" /\ Payloads(PairPeer, msg_len[d]) # {}) =>
           ENABLED ReadPayload(d, PairPeer)
      /\ pc[d] = "drain" => ENABLED Drain(d)
      /\ pc[d] = "spawned" => ENABLED ConnStart(d)
      /\ (pc[d] = "none" /\ Listening /\ \A b \in Conns : b < d => pc[b] # "none") =>
           ENABLED Accept(d)

\* connection 1 has been waiting in the flush of its first response while
\* connection 2 was accepted and had all its requests read and answered
C33_Witness ==
  /\ pc[1] = "drain"
  /\ nread[1] = 1
  /\ Len(written[1]) = 1
  /\ conn_id[2] = 1
  /\ nread[2] = PairFrames
  /\ Len(written[2]) = PairFrames
  /\ pc[2] = "drain"

(* ------------------------------- C34 ---------------------------------- *)
\* start() call t has ended: it returned or an exception left it
Ended(t) == spc[t] \in {"returned", "raised", "cancelled"}

Started(c) == pc[c] \notin {"none", "spawned"}

\* C35: no two connections of the instance have the same conn_id, and a
\* connection task that starts later gets a larger id: each takes the value
\* of the counter and advances it by one in the same step.
C35_UniqueIds ==
  [][ /\ \A c \in Conns :
           (~Started(c) /\ Started(c)') =>
             /\ conn_id'[c] = connection_id
             /\ connection_id' = connection_id + 1
             /\ \A d \in Conns \ {c} : Started(d) => conn_id[d] < conn_id'[c]
      /\ \A c \in Conns : Started(c) => conn_id'[c] = conn_id[c]
      /\ \A c \in Conns : \A d \in Conns \ {c} :
           (Started(c)' /\ Started(d)') => conn_id'[c] # conn_id'[d] ]_vars

\* the connection accepted second started first and has ended; the other
\* got the next id
C35_Witness ==
  /\ conn_id[2] = 0
  /\ conn_id[1] = 1
  /\ connection_id = 2
  /\ pc[2] = "done"
  /\ pc[1] = "readlen"

(* ------------------------------- C36 ---------------------------------- *)
\* the causes for which a connection task leaves its loop
ExitCauses == {"idle", "too_large", "truncated", "shutdown", "error"}

\* C36: a connection task leaves its loop for one of the causes idle
\* (timeout or EOF), oversized frame, truncated frame, observed shutdown or
\* an exception (write failure included); a task that has left the loop
\* passes the finally block, which closes the socket, before it ends; and
\* once the socket is closed nothing more is read from or written to the
\* connection and it stays closed.
C36_ExitsClose ==
  [][ \A c \in Conns :
        /\ (InLoop(c) \/ pc[c] = "spawned") /\ LeftLoop(c)' => exit'[c] \in ExitCauses
        /\ (pc[c] = "finally" /\ pc'[c] # "finally") =>
             (sock'[c] = "closed" /\ pc'[c] = "wait_closed")
        /\ (pc[c] # "done" /\ pc'[c] = "done") =>
             (pc[c] = "wait_closed" /\ sock[c] = "closed")
        /\ pc'[c] = "done" => sock'[c] = "closed"
        /\ sock[c] = "closed" =>
             /\ sock'[c] = "closed"
             /\ nprefix'[c] = nprefix[c]
             /\ nread'[c] = nread[c]
             /\ written'[c] = written[c]
             /\ LeftLoop(c)' ]_vars

\* a write failure after the last response: the task has ended with its
\* socket closed
C36_Witness ==
  /\ exit[1] = "error"
  /\ pc[1] = "done"
  /\ sock[1] = "closed"
  /\ Len(written[1]) = MaxFrames
  /\ nread[1] = MaxFrames

(* ------------------------------- C37 ---------------------------------- *)
\* C37: on every connection the frames written are at most as many as the
\* length prefixes read, and a frame is written only in the step that
\* answers a prefix just read: the notice for an oversized prefix, or the
\* response to the payload that followed a prefix, one frame each.
C37_FramesPerPrefix ==
  [][ \A c \in Conns :
        /\ Len(written'[c]) <= nprefix'[c]
        /\ nread'[c] <= nprefix'[c]
        /\ written'[c] # written[c] =>
             /\ Len(written'[c]) = Len(written[c]) + 1
             /\ SubSeq(written'[c], 1, Len(written[c])) = written[c]
             /\ \/ nprefix'[c] = nprefix[c] + 1 /\ nread'[c] = nread[c]
                \/ nread'[c] = nread[c] + 1 /\ nprefix'[c] = nprefix[c] ]_vars

\* one request answered, then an oversized prefix noticed: two prefixes
\* read, two frames written, one payload read
C37_Witness ==
  /\ nprefix[1] = 2
  /\ nread[1] = 1
  /\ Len(written[1]) = 2
  /\ exit[1] = "too_large"
  /\ pc[1] = "notice_drain"

====
